---------------------------- MODULE Spec2Model ----------------------------
(***************************************************************************)
(* Phase orchestration of the three-stage pipeline (requirements, coding,  *)
(* validation): the synchronous Orchestrator.run() of                      *)
(* src/src/orchestrator/orechestrator.py, its environment preparation and  *)
(* constructor, and the re-entrant Streamlit adapter of src/main_UI.py.    *)
(*                                                                         *)
(* Texts are sequences of one-character strings (" " is whitespace), so    *)
(* that str.strip() is computed; a fixed instruction or an agent response  *)
(* is a one-element sequence holding the whole text.                       *)
(***************************************************************************)
EXTENDS Integers, Sequences, FiniteSets, TLC

\* ------------------------------------------------------------------ bounds
MaxEntries == 1
MaxPrepCalls == 2
MaxInputLen == 1
MaxReq == 2
MaxClock == 1
MaxResets == 1
MaxRaises == 1
MaxInflight == 2

\* ------------------------------------------------------------- file system
ZIP_FILE == "./deliverable.zip"
SPEC_FILE == "./specs/SPEC.md"
VALIDATION_FILE == "./VALIDATION.md"
TEST_DIR == "./validation_workspace"
FIXED_ZIP == "./deliverable_fixed.zip"
OUT_DIR == "./generated_project"

Paths == {ZIP_FILE, SPEC_FILE, VALIDATION_FILE, TEST_DIR, FIXED_ZIP, OUT_DIR}

\* How deleting a file-system object fails:
\*   "ok"     it is deleted;
\*   "ro"     EACCES, and clearing the read-only flag makes the retry succeed;
\*   "denied" EACCES, and the retry after chmod fails again;
\*   "busy"   an error whose errno is not EACCES.
EntryModes == {"ok", "ro", "denied", "busy"}
FileModes == {"ok", "ro"}

Absent == [kind |-> "absent", mode |-> "ok", entries |-> <<>>]
File(m) == [kind |-> "file", mode |-> m, entries |-> <<>>]
Dir(es) == [kind |-> "dir", mode |-> "ok", entries |-> es]

SeqsUpTo(S, n) == UNION {[1..k -> S] : k \in 0..n}

FileNodes == {Absent} \cup {File(m) : m \in FileModes}
DirNodes == {Absent} \cup {Dir(es) : es \in SeqsUpTo(EntryModes, MaxEntries)}

exists(f, path) == f[path].kind # "absent"
isdir(f, path) == f[path].kind = "dir"

\* ------------------------------------------------------------------- texts
IsSpace(ch) == ch = " "

RECURSIVE lstrip(_)
lstrip(s) == IF s # <<>> /\ IsSpace(Head(s)) THEN lstrip(Tail(s)) ELSE s

RECURSIVE rstrip(_)
rstrip(s) ==
    IF s # <<>> /\ IsSpace(s[Len(s)]) THEN rstrip(SubSeq(s, 1, Len(s) - 1)) ELSE s

\* str.strip()
strip(s) == rstrip(lstrip(s))

\* What input() can return: the texts the user can type.
Inputs == SeqsUpTo({" ", "a"}, MaxInputLen)

VARIABLES
    variant,                \* which caller drives the pipeline: "sync", "ui", "prep", "race" (both)
    fs,                     \* the artifact paths of the working directory
    environ,                \* os.environ["AZURE_AI_PROJECT_ENDPOINT"], "None" when unset
    proc,                   \* process-wide state: agents built, logger, log files
    prepCalls,              \* the direct prepare_environment calls, in order
    trace,                  \* stage calls, existence checks and inputs, in order
    pc,                     \* where main() / Orchestrator.run() is
    orchestrator,           \* main()'s Orchestrator instance, 0 before construction
    conversation_history,   \* run()'s plain transcript
    response,               \* run()'s last Requirements response
    coder_response,         \* run()'s Coding response
    result,                 \* the dict run() returned
    ss,                     \* st.session_state of the re-entrant adapter
    resets,                 \* how many times the session was reset
    rerun,                  \* the last script run ended in st.rerun()
    log_rendered,           \* the last script run reached render_log_column
    inflight,               \* the stage calls started and not yet completed
    awaiting,               \* the stage call the caller is blocked in, "" when none
    first_run               \* the directory a run() started in and its trace, kept
                            \* for the session that repeats it (<<>> when none does)

runVars == <<pc, orchestrator, conversation_history, response, coder_response, result>>
uiVars == <<ss, resets, rerun, log_rendered>>
vars == <<variant, fs, environ, proc, prepCalls, trace, runVars, uiVars, inflight, awaiting, first_run>>

\* ------------------------------------------------------ prepare_environment
PathsToCleanWithoutSpec ==
    <<ZIP_FILE, FIXED_ZIP, OUT_DIR, TEST_DIR, VALIDATION_FILE,
      "./deliverable_fixed.zip">>

paths_to_clean ==
    <<ZIP_FILE, FIXED_ZIP, OUT_DIR, TEST_DIR, SPEC_FILE, VALIDATION_FILE,
      "./deliverable_fixed.zip">>

\* A file-system call of the preparator and how it ended: res is "ok", or
\* the errno it failed with ("EACCES", or "EBUSY" for any other errno).
Op(name, path, entry, res) == [op |-> name, path |-> path, entry |-> entry, res |-> res]
Log(level, msg, path) == [level |-> level, msg |-> msg, path |-> path]

Errno(m) == IF m \in {"ro", "denied"} THEN "EACCES" ELSE "EBUSY"

\* The handler shutil.rmtree calls when removing entry number `entry` of
\* `path` failed in mode m: removed tells whether the handler returned (the
\* retry succeeded); otherwise it raised.
OnRmtreeErrorRetryTwice(path, entry, m) ==
    IF Errno(m) = "EACCES"
    THEN [removed |-> m = "ro",
          log |-> <<Log("DEBUG", "Permission error", path)>>,
          ops |-> <<Op("chmod", path, entry, "ok"),
                    Op("retry", path, entry, IF m = "ro" THEN "ok" ELSE "EACCES")>>
                  \o (IF m = "ro" THEN <<>>
                      ELSE <<Op("chmod", path, entry, "ok"),
                             Op("retry", path, entry, "EACCES")>>)]
    ELSE [removed |-> FALSE,
          log |-> <<Log("WARNING", "Failed to remove", path)>>,
          ops |-> <<>>]

_on_rmtree_error(path, entry, m) ==
    IF Errno(m) = "EACCES"
    THEN [removed |-> m = "ro",
          log |-> <<Log("DEBUG", "Permission error", path)>>,
          ops |-> <<Op("chmod", path, entry, "ok"),
                    Op("retry", path, entry, IF m = "ro" THEN "ok" ELSE "EACCES")>>]
    ELSE [removed |-> FALSE,
          log |-> <<Log("WARNING", "Failed to remove", path)>>,
          ops |-> <<>>]

\* shutil.rmtree(path, onerror=_on_rmtree_error) on the entries still to be
\* removed, the first of which is entry number i of the directory.
RECURSIVE rmtree_entries(_, _, _)
rmtree_entries(path, entries, i) ==
    IF entries = <<>>
    THEN [entries |-> <<>>, log |-> <<>>, ops |-> <<>>, exc |-> FALSE]
    ELSE LET m == Head(entries) IN
         IF m = "ok"
         THEN LET r == rmtree_entries(path, Tail(entries), i + 1) IN
              [r EXCEPT !.ops = <<Op("unlink", path, i, "ok")>> \o @]
         ELSE LET h == _on_rmtree_error(path, i, m) IN
              IF h.removed
              THEN LET r == rmtree_entries(path, Tail(entries), i + 1) IN
                   [r EXCEPT !.ops = <<Op("unlink", path, i, Errno(m))>> \o h.ops \o @,
                             !.log = h.log \o @]
              ELSE [entries |-> entries,
                    log |-> h.log,
                    ops |-> <<Op("unlink", path, i, Errno(m))>> \o h.ops,
                    exc |-> TRUE]

rmtree(path, node) ==
    LET r == rmtree_entries(path, node.entries, 1) IN
    IF r.exc
    THEN [node |-> Dir(r.entries), log |-> r.log, ops |-> r.ops, exc |-> TRUE]
    ELSE [node |-> Absent, log |-> r.log,
          ops |-> r.ops \o <<Op("rmdir", path, 0, "ok")>>, exc |-> FALSE]

\* os.remove(path): no error handler, any failure raises.
os_remove(path, node) ==
    IF node.mode = "ok"
    THEN [node |-> Absent, log |-> <<>>,
          ops |-> <<Op("remove", path, 0, "ok")>>, exc |-> FALSE]
    ELSE [node |-> node, log |-> <<>>,
          ops |-> <<Op("remove", path, 0, Errno(node.mode))>>, exc |-> TRUE]

\* One iteration of the loop over paths_to_clean; st is the state of the call
\* so far: [fs, log, ops, raised].
CleanOnePropagate(st, path) ==
    IF ~exists(st.fs, path) THEN st
    ELSE LET r == IF isdir(st.fs, path) THEN rmtree(path, st.fs[path])
                  ELSE os_remove(path, st.fs[path])
         IN [fs |-> [st.fs EXCEPT ![path] = r.node],
             log |-> st.log \o r.log
                     \o (IF r.exc THEN <<>> ELSE <<Log("DEBUG", "Removed", path)>>),
             ops |-> st.ops \o r.ops,
             raised |-> r.exc]

CleanOne(st, path) ==
    IF ~exists(st.fs, path) THEN st
    ELSE LET r == IF isdir(st.fs, path) THEN rmtree(path, st.fs[path])
                  ELSE os_remove(path, st.fs[path])
         IN [fs |-> [st.fs EXCEPT ![path] = r.node],
             log |-> st.log \o r.log
                     \o <<IF r.exc THEN Log("WARNING", "Could not remove", path)
                          ELSE Log("DEBUG", "Removed", path)>>,
             ops |-> st.ops \o r.ops,
             raised |-> FALSE]

\* The for loop; an exception that leaves an iteration ends the call.
RECURSIVE CleanPaths(_, _)
CleanPaths(st, paths) ==
    IF paths = <<>> \/ st.raised THEN st
    ELSE CleanPaths(CleanOne(st, Head(paths)), Tail(paths))

\* os.makedirs(OUT_DIR, exist_ok=True)
makedirsSkipped(st) == st

makedirs(st) ==
    IF st.raised THEN st
    ELSE IF isdir(st.fs, OUT_DIR) THEN st
    ELSE IF exists(st.fs, OUT_DIR) THEN [st EXCEPT !.raised = TRUE]
    ELSE [st EXCEPT !.fs[OUT_DIR] = Dir(<<>>),
                    !.ops = @ \o <<Op("makedirs", OUT_DIR, 0, "ok")>>]

\* The whole call, from the file system f: what it leaves, logs and does.
prepare_environment(f) ==
    LET st == makedirs(CleanPaths([fs |-> f, log |-> <<>>, ops |-> <<>>,
                                   raised |-> FALSE], paths_to_clean))
    IN [before |-> f, after |-> st.fs, log |-> st.log, ops |-> st.ops,
        raised |-> st.raised]

\* The file system with the given nodes at the six artifact paths.
MkFS(zip, fixed, out, test, spec, validation) ==
    [p \in Paths |->
        IF p = ZIP_FILE THEN zip
        ELSE IF p = FIXED_ZIP THEN fixed
        ELSE IF p = OUT_DIR THEN out
        ELSE IF p = TEST_DIR THEN test
        ELSE IF p = SPEC_FILE THEN spec
        ELSE validation]

\* Every deletion of call c succeeded: no warning was logged, nothing raised.
AllDeleted(c) ==
    /\ ~c.raised
    /\ \A i \in 1..Len(c.log) : c.log[i].level # "WARNING"

\* ---------------------------------------------------- Orchestrator.__init__
\* Python truth of an optional string: None and "" are false.
Truthy(v) == v \notin {"None", ""}

EndpointValues == {"None", "", "https://endpoint"}

NoProc ==
    [agents |-> 0, instances |-> 0, logDir |-> FALSE, handlers |-> <<>>,
     logFiles |-> {}, clock |-> 0]

Handler(kind, level, file) == [kind |-> kind, level |-> level, file |-> file]

\* _setup_logging() at time t: the process-wide "orchestrator" logger gets a
\* console handler and a handler on the file named after t (file -1: stdout).
SetupLoggingWithoutClear(p, t) ==
    [p EXCEPT !.logDir = TRUE,
              !.handlers = Append(Append(@, Handler("console", "INFO", -1)),
                                  Handler("file", "DEBUG", t)),
              !.logFiles = @ \cup {t},
              !.clock = t]

_setup_logging(p, t) ==
    [p EXCEPT !.logDir = TRUE,
              \* logger.handlers.clear(), then the two addHandler calls
              !.handlers = Append(Append(<<>>, Handler("console", "INFO", -1)),
                                  Handler("file", "DEBUG", t)),
              !.logFiles = @ \cup {t},
              !.clock = t]

\* The constructor, called with `endpoint` at time t in process state p.
InitLoggingBeforeEndpointCheck(p, env, endpoint, t) ==
    LET ep == IF Truthy(endpoint) THEN endpoint ELSE env IN
    IF ~Truthy(ep) THEN [raised |-> TRUE, proc |-> _setup_logging(p, t)]
    ELSE [raised |-> FALSE,
          proc |-> _setup_logging([p EXCEPT !.agents = @ + 3, !.instances = @ + 1], t)]

Orchestrator__init__(p, env, endpoint, t) ==
    LET ep == IF Truthy(endpoint) THEN endpoint ELSE env IN
    IF ~Truthy(ep) THEN [raised |-> TRUE, proc |-> p]
    ELSE [raised |-> FALSE,
          proc |-> _setup_logging([p EXCEPT !.agents = @ + 3, !.instances = @ + 1], t)]

\* datetime.now() at a construction: not before the last reading of the clock.
Now == {t \in proc.clock..MaxClock : t <= proc.clock + 1}

\* ------------------------------------------------------------- the agents
\* The tools through which the agents write the artifacts.
save_file(f) ==
    [f EXCEPT ![SPEC_FILE] = IF exists(f, SPEC_FILE) THEN @ ELSE File("ok")]

create_project_file(f) ==
    [f EXCEPT ![OUT_DIR] =
        IF ~exists(f, OUT_DIR) THEN Dir(<<"ok">>)
        ELSE IF isdir(f, OUT_DIR) /\ Len(@.entries) < MaxEntries
             THEN Dir(Append(@.entries, "ok"))
             ELSE @]

create_zip(f) ==
    IF ~exists(f, OUT_DIR) THEN f
    ELSE [f EXCEPT ![ZIP_FILE] = IF exists(f, ZIP_FILE) THEN @ ELSE File("ok")]

unzip_project(f) ==
    IF ~exists(f, ZIP_FILE) THEN f
    ELSE IF exists(f, TEST_DIR) /\ \E i \in 1..Len(f[TEST_DIR].entries) :
                                      f[TEST_DIR].entries[i] # "ok"
         THEN f
         ELSE [f EXCEPT ![TEST_DIR] = Dir(<<"ok">>)]

create_validation_report(f) ==
    [f EXCEPT ![VALIDATION_FILE] = IF exists(f, VALIDATION_FILE) THEN @ ELSE File("ok")]

fix_and_rezip(f) ==
    IF ~exists(f, TEST_DIR) THEN f
    ELSE [f EXCEPT ![FIXED_ZIP] = IF exists(f, FIXED_ZIP) THEN @ ELSE File("ok")]

\* What a stage call can do to the file system before it returns.
RequirementsEffects(f) == {f, save_file(f)}
CoderEffects(f) ==
    {f, create_project_file(f), create_zip(f), create_zip(create_project_file(f))}
ValidatorEffects(f) ==
    {f, unzip_project(f), create_validation_report(f),
     create_validation_report(unzip_project(f)),
     create_validation_report(fix_and_rezip(unzip_project(f)))}

\* The paths that exist in g and did not in f.
Created(f, g) == {p \in Paths : ~exists(f, p) /\ exists(g, p)}

\* The opaque response texts: the n-th reply of a stage.
RECURSIVE Marks(_)
Marks(n) == IF n = 0 THEN <<>> ELSE <<"#">> \o Marks(n - 1)
Reply(stage, n) == <<stage>> \o Marks(n)

\* ------------------------------------------------------------- the trace
Check(path, res) == [ev |-> "check", what |-> path, arg |-> <<>>, res |-> res, eff |-> {}]
Call(stage, arg, returned, eff) ==
    [ev |-> "call", what |-> stage, arg |-> arg, res |-> returned, eff |-> eff]
Input(raw) == [ev |-> "input", what |-> "", arg |-> <<raw>>, res |-> TRUE, eff |-> {}]
Prepared(clean) == [ev |-> "prepare", what |-> "", arg |-> <<>>, res |-> clean, eff |-> {}]
\* input() raising EOFError: the prompt source is closed.
InputRaised == [ev |-> "eof", what |-> "", arg |-> <<>>, res |-> FALSE, eff |-> {}]

CallsOf(tr, stage) == {k \in 1..Len(tr) : tr[k].ev = "call" /\ tr[k].what = stage}
Raised(tr) == {k \in 1..Len(tr) : tr[k].ev = "call" /\ ~tr[k].res}

\* --------------------------------------------------------- Orchestrator.run
DefaultAnswer == <<"I don't have more info. Please proceed with reasonable assumptions.">>

coder_prompt ==
    <<"Read the SPEC.md file using read_spec_file, analyze the requirements, and generate a complete production-ready Python project. Create all necessary files using create_project_file and then create the zip deliverable using create_zip.">>

validator_prompt ==
    <<"Validate the deliverable.zip project. Be thorough but fair in assessment. Take a limited amount of time for validation (save tokens as much as possible)">>

\* user_answer after input().strip() and the substitution of the default.
UserAnswerUnstripped(raw) == IF raw = <<>> THEN DefaultAnswer ELSE raw

UserAnswer(raw) ==
    LET user_answer == strip(raw) IN
    IF user_answer = <<>> THEN DefaultAnswer ELSE user_answer

get_artifacts(f) ==
    [spec |-> IF exists(f, SPEC_FILE) THEN SPEC_FILE ELSE "None",
     deliverable |-> IF exists(f, ZIP_FILE) THEN ZIP_FILE ELSE "None",
     validation |-> IF exists(f, VALIDATION_FILE) THEN VALIDATION_FILE ELSE "None",
     source |-> IF exists(f, OUT_DIR) THEN OUT_DIR ELSE "None"]

ArtifactKeys == <<"spec", "deliverable", "validation", "source">>

RECURSIVE Join(_, _)
Join(words, sep) ==
    IF words = <<>> THEN <<>>
    ELSE IF Len(words) = 1 THEN words
    ELSE <<Head(words), sep>> \o Join(Tail(words), sep)

SuccessWithoutValidation(artifacts) ==
    artifacts.spec # "None" /\ artifacts.deliverable # "None"

\* all([artifacts["spec"], artifacts["deliverable"], artifacts["validation"]])
Success(artifacts) ==
    /\ artifacts.spec # "None"
    /\ artifacts.deliverable # "None"
    /\ artifacts.validation # "None"

SuccessSummary == <<"Workflow completed successfully. All artifacts generated.">>
CodingFailureSummary == <<"Code generation failed: ", "deliverable", ".zip not created">>

SummaryNamesAllArtifacts(artifacts) ==
    IF Success(artifacts) THEN SuccessSummary
    ELSE <<"Workflow incomplete. Missing artifacts: ">> \o Join(ArtifactKeys, ", ") \o <<".">>

Summary(artifacts) ==
    IF Success(artifacts) THEN SuccessSummary
    ELSE LET IsMissing(k) == artifacts[k] = "None"
             missing == SelectSeq(ArtifactKeys, IsMissing)
         IN <<"Workflow incomplete. Missing artifacts: ">> \o Join(missing, ", ") \o <<".">>

NoResult ==
    [returned |-> FALSE, success |-> FALSE, conversation |-> <<>>,
     artifacts |-> get_artifacts([p \in Paths |-> Absent]), summary |-> <<>>]

CodingFailureResultReportsSuccess(conv, cresp, f) ==
    [returned |-> TRUE, success |-> TRUE,
     conversation |-> conv \o <<coder_prompt, cresp>>,
     artifacts |-> get_artifacts(f),
     summary |-> SuccessSummary]

\* The dict returned when the deliverable is missing after Coding.
CodingFailureResult(conv, cresp, f) ==
    [returned |-> TRUE, success |-> FALSE,
     conversation |-> conv \o <<coder_prompt, cresp>>,
     artifacts |-> get_artifacts(f),
     summary |-> CodingFailureSummary]

FinalResultWithoutInstructions(conv, cresp, vresp, f) ==
    LET artifacts == get_artifacts(f) IN
    [returned |-> TRUE, success |-> Success(artifacts),
     conversation |-> conv \o <<cresp, vresp>>,
     artifacts |-> artifacts,
     summary |-> Summary(artifacts)]

\* The dict returned after Validation.
FinalResult(conv, cresp, vresp, f) ==
    LET artifacts == get_artifacts(f) IN
    [returned |-> TRUE, success |-> Success(artifacts),
     conversation |-> conv \o <<coder_prompt, cresp, validator_prompt, vresp>>,
     artifacts |-> artifacts,
     summary |-> Summary(artifacts)]

\* SESSION_DEFAULTS as init_session() installs them, with the two keys the
\* Requirements handler adds; orchestrator 0, log_file -1 and error <<>> are None.
SESSION_DEFAULTS ==
    [phase |-> 1, chat_messages |-> <<>>, conversation_history |-> <<>>,
     orchestrator |-> 0, log_file |-> -1, error |-> <<>>,
     input_submitted |-> FALSE, input_counter |-> 0]

\* Which callers drive the pipeline on the working directory.
InSync == variant \in {"sync", "race"}
InUI == variant \in {"ui", "race"}

\* __main__: load the endpoint from the environment and construct.
Main ==
    /\ InSync /\ pc = "start"
    /\ \E t \in Now :
          LET r == Orchestrator__init__(proc, environ, environ, t) IN
          /\ proc' = r.proc
          /\ pc' = IF r.raised THEN "config_error" ELSE "request"
          /\ orchestrator' = IF r.raised THEN 0 ELSE r.proc.instances
    /\ UNCHANGED <<variant, first_run, inflight, awaiting, fs, environ, prepCalls, trace, conversation_history,
                   response, coder_response, result, uiVars>>

\* main reads the request and calls run(), which prepares the environment
\* (when clean_start) and starts the conversation.
RunBegin ==
    /\ InSync /\ pc = "request"
    /\ \E raw \in Inputs, clean_start \in BOOLEAN :
          LET user_request == strip(raw)
              c == prepare_environment(fs)
          IN /\ fs' = IF clean_start THEN c.after ELSE fs
             /\ trace' = trace \o <<Input(raw)>>
                         \o (IF clean_start THEN <<Prepared(AllDeleted(c))>> ELSE <<>>)
             /\ conversation_history' = <<user_request>>
             /\ pc' = IF clean_start /\ c.raised THEN "raised" ELSE "while"
    /\ UNCHANGED <<variant, first_run, inflight, awaiting, environ, proc, prepCalls, orchestrator, response,
                   coder_response, result, uiVars>>

\* The while test of line 176: the loop body runs while the spec artifact
\* is absent.
LoopContinuesAlways(specExists) == TRUE

LoopContinues(specExists) == ~specExists

\* The while test fails: the spec artifact exists.
LoopExit ==
    /\ InSync /\ pc = "while"
    /\ ~LoopContinues(exists(fs, SPEC_FILE))
    /\ trace' = Append(trace, Check(SPEC_FILE, TRUE))
    /\ pc' = "coding"
    /\ UNCHANGED <<variant, first_run, inflight, awaiting, fs, environ, proc, prepCalls, orchestrator,
                   conversation_history, response, coder_response, result, uiVars>>

\* Where the loop goes after a Requirements call, given the check of line 184.
AfterRequirementsAlwaysCoding(specExists) == "coding"

AfterRequirements(specExists) == IF specExists THEN "coding" ELSE "input"

\* One pass of the loop up to the check that follows the Requirements call.
\* The actions that hold a stage call take the place the caller is at (at:
\* "" for the whole step done at once, the stage when the caller resumes from
\* its await) and the calls (fl) that remain in flight when the call is over.
RequirementsInvokeFrom(at, fl) ==
    /\ InSync /\ pc = "while"
    /\ awaiting = at /\ awaiting' = "" /\ inflight' = fl
    /\ LoopContinues(exists(fs, SPEC_FILE))
    /\ Cardinality(CallsOf(trace, "requirements")) < MaxReq
    /\ LET n == Cardinality(CallsOf(trace, "requirements")) + 1 IN
       \/ /\ trace' = trace \o <<Check(SPEC_FILE, exists(fs, SPEC_FILE)),
                                 Call("requirements", conversation_history, FALSE, {})>>
          /\ pc' = "raised"
          /\ UNCHANGED <<fs, response>>
       \/ \E g \in RequirementsEffects(fs) :
             /\ fs' = g
             /\ response' = Reply("requirements", n)
             /\ trace' = trace \o <<Check(SPEC_FILE, exists(fs, SPEC_FILE)),
                                    Call("requirements", conversation_history, TRUE,
                                         Created(fs, g)),
                                    Check(SPEC_FILE, exists(g, SPEC_FILE))>>
             /\ pc' = AfterRequirements(exists(g, SPEC_FILE))
    /\ UNCHANGED <<variant, first_run, environ, proc, prepCalls, orchestrator,
                   conversation_history, coder_response, result, uiVars>>

RequirementsInvoke == RequirementsInvokeFrom("", inflight)

\* "Update conversation history": the two appends of lines 197-198.
ReplaceWithExchange(history, response_text, user_answer) == <<response_text, user_answer>>

AppendExchange(history, response_text, user_answer) ==
    Append(Append(history, response_text), user_answer)

\* The user answers the agent's question, or the prompt source is closed.
ReadAnswer ==
    /\ InSync /\ pc = "input"
    /\ Cardinality(CallsOf(trace, "requirements")) < MaxReq
    /\ \/ \E raw \in Inputs :
             /\ conversation_history' =
                   AppendExchange(conversation_history, response, UserAnswer(raw))
             /\ trace' = Append(trace, Input(raw))
             /\ pc' = "while"
       \/ /\ trace' = Append(trace, InputRaised)
          /\ pc' = "raised"
          /\ UNCHANGED conversation_history
    /\ UNCHANGED <<variant, first_run, inflight, awaiting, fs, environ, proc, prepCalls, orchestrator, response,
                   coder_response, result, uiVars>>

\* Where run() goes after the Coding call, given the check of line 214.
AfterCodingAlwaysValidation(zipExists) == "validation"

AfterCodingInverted(zipExists) == IF zipExists THEN "returned" ELSE "validation"

AfterCoding(zipExists) == IF zipExists THEN "validation" ELSE "returned"

\* The Coding call and the check of the deliverable.
CoderInvokeFrom(at, fl) ==
    /\ InSync /\ pc = "coding"
    /\ awaiting = at /\ awaiting' = "" /\ inflight' = fl
    /\ \/ /\ trace' = Append(trace, Call("coder", <<coder_prompt>>, FALSE, {}))
          /\ pc' = "raised"
          /\ UNCHANGED <<fs, coder_response, result>>
       \/ \E g \in CoderEffects(fs) :
             LET cresp == Reply("coder", 1) IN
             /\ fs' = g
             /\ coder_response' = cresp
             /\ trace' = trace \o <<Call("coder", <<coder_prompt>>, TRUE, Created(fs, g)),
                                    Check(ZIP_FILE, exists(g, ZIP_FILE))>>
             /\ pc' = AfterCoding(exists(g, ZIP_FILE))
             /\ result' = IF AfterCoding(exists(g, ZIP_FILE)) = "returned"
                          THEN CodingFailureResult(conversation_history, cresp, g)
                          ELSE result
    /\ UNCHANGED <<variant, first_run, environ, proc, prepCalls, orchestrator,
                   conversation_history, response, uiVars>>

CoderInvoke == CoderInvokeFrom("", inflight)

\* The Validation call and the final result.
ValidatorInvokeFrom(at, fl) ==
    /\ InSync /\ pc = "validation"
    /\ awaiting = at /\ awaiting' = "" /\ inflight' = fl
    /\ \/ /\ trace' = Append(trace, Call("validator", <<validator_prompt>>, FALSE, {}))
          /\ pc' = "raised"
          /\ UNCHANGED <<fs, result>>
       \/ \E g \in ValidatorEffects(fs) :
             /\ fs' = g
             /\ trace' = Append(trace, Call("validator", <<validator_prompt>>, TRUE,
                                            Created(fs, g)))
             /\ result' = FinalResult(conversation_history, coder_response,
                                      Reply("validator", 1), g)
             /\ pc' = "returned"
    /\ UNCHANGED <<variant, first_run, environ, proc, prepCalls, orchestrator,
                   conversation_history, response, coder_response, uiVars>>

ValidatorInvoke == ValidatorInvokeFrom("", inflight)

\* What a previous run can have left in the working directory.
StaleFile == {Absent, File("ro")}

RunFS ==
    {MkFS(z, Absent, o, Absent, s, v) :
        z \in StaleFile, o \in {Absent, Dir(<<>>)}, s \in FileNodes, v \in StaleFile}

InitRun ==
    /\ variant = "sync"
    /\ fs \in RunFS
    /\ environ \in EndpointValues
    /\ proc = NoProc
    /\ prepCalls = <<>>
    /\ trace = <<>>
    /\ pc = "start"
    /\ orchestrator = 0
    /\ conversation_history = <<>>
    /\ response = <<>>
    /\ coder_response = <<>>
    /\ result = NoResult
    /\ ss = SESSION_DEFAULTS
    /\ resets = 0
    /\ rerun = FALSE
    /\ log_rendered = FALSE
    /\ inflight = <<>>
    /\ awaiting = ""
    /\ first_run = <<>>

NextRun ==
    \/ Main
    \/ RunBegin
    \/ LoopExit
    \/ RequirementsInvoke
    \/ ReadAnswer
    \/ CoderInvoke
    \/ ValidatorInvoke

SpecRun == InitRun /\ [][NextRun]_vars

\* run() is one coroutine driven by asyncio.run(main()): as long as a step of
\* it can be taken, one is taken.
SpecRunFair == SpecRun /\ WF_vars(NextRun)

\* ------------------------------------------------- the re-entrant adapter
ui_coder_prompt ==
    <<"Read the SPEC.md file using read_spec_file, analyze the requirements, and generate a complete production-ready Python project. Create all necessary files using create_project_file and then create the zip deliverable using create_zip.">>

ui_validator_prompt ==
    <<"Validate the deliverable.zip project. Be thorough but fair in assessment. Take a limited amount of time for validation (save tokens as much as possible).You cannot ask anything to the user.">>

CodingFailedError == <<"Code generation failed: ", "deliverable", ".zip was not created.">>

Reset == [ev |-> "reset", what |-> "", arg |-> <<>>, res |-> TRUE, eff |-> {}]

BubbleRoleAsText(role, text) == [role |-> role, text |-> <<role>>]

Bubble(role, text) == [role |-> role, text |-> text]

\* get_latest_log_file(): the log file modified last.
get_latest_log_file(p) ==
    IF p.logFiles = {} THEN -1
    ELSE CHOOSE t \in p.logFiles : \A u \in p.logFiles : u <= t

\* The phase the handlers store after their stage call.
PhaseAfterRequirements(specExists, phase) == IF specExists THEN 2 ELSE phase

PhaseAfterCodingBackToRequirements(zipExists) == IF zipExists THEN 3 ELSE 1

PhaseAfterCoding(zipExists) == IF zipExists THEN 3 ELSE 4

\* The error field phase_coding leaves, given the check of line 168.
ErrorAfterCodingNeverSet(zipExists, error) == error

ErrorAfterCoding(zipExists, error) == IF zipExists THEN error ELSE CodingFailedError

PhaseAfterValidationOnlyWithReport(validationExists) == IF validationExists THEN 4 ELSE 3

PhaseAfterValidation(validationExists) == 4

\* main(): the handler PHASE_HANDLERS selects for the phase of the session.
PhaseHandlersCodingAndValidationSwapped(phase) ==
    CASE phase = 1 -> "requirements"
      [] phase = 2 -> "validator"
      [] phase = 3 -> "coder"
      [] OTHER -> "done"

PHASE_HANDLERS(phase) ==
    CASE phase = 1 -> "requirements"
      [] phase = 2 -> "coder"
      [] phase = 3 -> "validator"
      [] OTHER -> "done"

\* "First message -> boot orchestrator": the test of line 109.
NeedsBootNever(orch) == FALSE

NeedsBootAlways(orch) == TRUE

NeedsBoot(orch) == orch = 0

\* Whether phase_requirements ends in st.rerun() (line 139) or returns at
\* line 103, given that a user turn was submitted.
RequirementsRerunsAlways(submitted) == TRUE

RequirementsReruns(submitted) == submitted

\* main(): render_log_column is called after the phase handler, so a script
\* run reaches it only when the handler returns; a handler that ends in
\* st.rerun() or raises ends the script run there.
ReachesLogColumn(outcome) == outcome = "return"

\* render_log_column(): whether it ends in st.rerun() after its 2-second
\* sleep, the auto-refresh of phases 2 and 3.
render_log_column(phase) == phase \in {2, 3}

\* What the widgets hold in a script run: a run that st.rerun() requested
\* finds a fresh, empty text input and no click; a run that an external
\* event triggered finds whatever the user did.
WidgetTexts == IF rerun THEN {<<>>} ELSE Inputs
WidgetEvents == IF rerun THEN {FALSE} ELSE BOOLEAN

\* A script run in phase 1: phase_requirements with the widget holding raw,
\* the on_change callback having fired or not, the Send button clicked or not.
UIRequirementsFrom(at, fl) ==
    /\ InUI /\ PHASE_HANDLERS(ss.phase) = "requirements"
    /\ awaiting = at /\ awaiting' = "" /\ inflight' = fl
    /\ \E raw \in WidgetTexts, changed \in WidgetEvents, send_clicked \in WidgetEvents :
          LET flag == ss.input_submitted \/ changed
              input_submitted == flag \/ send_clicked
              user_input == strip(raw)
          IN
          IF ~(input_submitted /\ user_input # <<>>)
          THEN /\ at = ""
               /\ ss' = [ss EXCEPT !.input_submitted = flag]
               /\ rerun' = (RequirementsReruns(FALSE) \/ render_log_column(ss.phase))
               /\ log_rendered' = ReachesLogColumn("return")
               /\ UNCHANGED <<fs, proc, trace>>
          ELSE
          /\ Cardinality(CallsOf(trace, "requirements")) < MaxReq
          /\ \E t \in Now :
             LET boot == NeedsBoot(ss.orchestrator)
                 r == Orchestrator__init__(proc, environ, "None", t)
                 c == prepare_environment(fs)
                 s0 == [ss EXCEPT !.input_submitted = FALSE]
             IN
             IF boot /\ (r.raised \/ c.raised)
             THEN /\ at = ""
                  /\ ss' = s0
                  /\ proc' = r.proc
                  /\ fs' = IF r.raised THEN fs ELSE c.after
                  /\ rerun' = FALSE
                  /\ log_rendered' = ReachesLogColumn("raise")
                  /\ UNCHANGED trace
             ELSE
             LET p1 == IF boot THEN r.proc ELSE proc
                 f1 == IF boot THEN c.after ELSE fs
                 tr1 == IF boot THEN Append(trace, Prepared(AllDeleted(c))) ELSE trace
                 s1 == [s0 EXCEPT
                          !.orchestrator = IF boot THEN p1.instances ELSE @,
                          !.log_file = IF boot THEN get_latest_log_file(p1) ELSE @,
                          !.chat_messages = Append(@, Bubble("user", user_input)),
                          !.conversation_history = Append(@, user_input),
                          !.input_counter = @ + 1]
                 n == Cardinality(CallsOf(trace, "requirements")) + 1
             IN
             /\ proc' = p1
             /\ \/ /\ Cardinality(Raised(trace)) < MaxRaises
                   /\ fs' = f1
                   /\ ss' = s1
                   /\ trace' = Append(tr1, Call("requirements", s1.conversation_history,
                                                FALSE, {}))
                   /\ rerun' = FALSE
                   /\ log_rendered' = ReachesLogColumn("raise")
                \/ \E g \in RequirementsEffects(f1) :
                      LET agent_text == Reply("requirements", n) IN
                      /\ fs' = g
                      /\ ss' = [s1 EXCEPT
                                  !.chat_messages = Append(@, Bubble("agent", agent_text)),
                                  !.conversation_history = Append(@, agent_text),
                                  !.phase = PhaseAfterRequirements(exists(g, SPEC_FILE), @)]
                      /\ trace' = tr1 \o <<Call("requirements", s1.conversation_history,
                                                TRUE, Created(f1, g)),
                                           Check(SPEC_FILE, exists(g, SPEC_FILE))>>
                      /\ rerun' = RequirementsReruns(TRUE)
                      /\ log_rendered' = ReachesLogColumn("rerun")
    /\ UNCHANGED <<variant, first_run, environ, prepCalls, runVars, resets>>

UIRequirements == UIRequirementsFrom("", inflight)

\* A script run in phase 2: phase_coding.
UICodingFrom(at, fl) ==
    /\ InUI /\ PHASE_HANDLERS(ss.phase) = "coder"
    /\ awaiting = at /\ awaiting' = "" /\ inflight' = fl
    /\ \/ /\ Cardinality(Raised(trace)) < MaxRaises
          /\ trace' = Append(trace, Call("coder", <<ui_coder_prompt>>, FALSE, {}))
          /\ rerun' = FALSE
          /\ log_rendered' = ReachesLogColumn("raise")
          /\ UNCHANGED <<fs, ss>>
       \/ \E g \in CoderEffects(fs) :
             /\ ss.orchestrator # 0
             /\ fs' = g
             /\ trace' = trace \o <<Call("coder", <<ui_coder_prompt>>, TRUE, Created(fs, g)),
                                    Check(ZIP_FILE, exists(g, ZIP_FILE))>>
             /\ ss' = [ss EXCEPT
                         !.error = ErrorAfterCoding(exists(g, ZIP_FILE), @),
                         !.phase = PhaseAfterCoding(exists(g, ZIP_FILE))]
             /\ rerun' = TRUE
             /\ log_rendered' = ReachesLogColumn("rerun")
    /\ UNCHANGED <<variant, first_run, environ, proc, prepCalls, runVars, resets>>

UICoding == UICodingFrom("", inflight)

\* A script run in phase 3: phase_validation.
UIValidationFrom(at, fl) ==
    /\ InUI /\ PHASE_HANDLERS(ss.phase) = "validator"
    /\ awaiting = at /\ awaiting' = "" /\ inflight' = fl
    /\ \/ /\ Cardinality(Raised(trace)) < MaxRaises
          /\ trace' = Append(trace, Call("validator", <<ui_validator_prompt>>, FALSE, {}))
          /\ rerun' = FALSE
          /\ log_rendered' = ReachesLogColumn("raise")
          /\ UNCHANGED <<fs, ss>>
       \/ \E g \in ValidatorEffects(fs) :
             /\ ss.orchestrator # 0
             /\ fs' = g
             /\ trace' = Append(trace, Call("validator", <<ui_validator_prompt>>, TRUE,
                                            Created(fs, g)))
             /\ ss' = [ss EXCEPT !.phase = PhaseAfterValidation(exists(g, VALIDATION_FILE))]
             /\ rerun' = TRUE
             /\ log_rendered' = ReachesLogColumn("rerun")
    /\ UNCHANGED <<variant, first_run, environ, proc, prepCalls, runVars, resets>>

UIValidation == UIValidationFrom("", inflight)

\* st.session_state.clear(): every key of the session is dropped, and
\* init_session() of the next script run installs the defaults again.
ClearKeepsTranscripts(s) ==
    [SESSION_DEFAULTS EXCEPT !.chat_messages = s.chat_messages,
                             !.conversation_history = s.conversation_history]

session_state_clear(s) == SESSION_DEFAULTS

\* A script run in phase 4 in which "Start a new project" is clicked:
\* session_state.clear(), and init_session() of the rerun restores the defaults.
UIReset ==
    /\ InUI /\ PHASE_HANDLERS(ss.phase) = "done"
    /\ ~rerun
    /\ resets < MaxResets
    /\ ss' = session_state_clear(ss)
    /\ resets' = resets + 1
    /\ trace' = <<Reset>>
    /\ rerun' = TRUE
    /\ log_rendered' = ReachesLogColumn("rerun")
    /\ UNCHANGED <<variant, first_run, inflight, awaiting, fs, environ, proc, prepCalls, runVars>>

\* What phase_done presents for a session: the error bubble when error is
\* set, the "generated and validated successfully" bubble otherwise.
phase_done(s) == IF s.error # <<>> THEN "error" ELSE "success"

\* A script run in phase 4 without that click: phase_done shows the outcome
\* and the artifacts, render_log_column the log, and the script ends.
UIDone ==
    /\ InUI /\ PHASE_HANDLERS(ss.phase) = "done"
    /\ rerun' = render_log_column(ss.phase)
    /\ log_rendered' = ReachesLogColumn("return")
    /\ UNCHANGED <<variant, first_run, inflight, awaiting, fs, environ, proc, prepCalls, trace, runVars, ss, resets>>

InitUI ==
    /\ variant = "ui"
    /\ fs \in RunFS
    /\ environ \in EndpointValues
    /\ proc = NoProc
    /\ prepCalls = <<>>
    /\ trace = <<>>
    /\ pc = "start"
    /\ orchestrator = 0
    /\ conversation_history = <<>>
    /\ response = <<>>
    /\ coder_response = <<>>
    /\ result = NoResult
    /\ ss = SESSION_DEFAULTS
    /\ resets = 0
    /\ rerun = FALSE
    /\ log_rendered = FALSE
    /\ inflight = <<>>
    /\ awaiting = ""
    /\ first_run = <<>>

NextUI ==
    \/ UIRequirements
    \/ UICoding
    \/ UIValidation
    \/ UIReset
    \/ UIDone

SpecUI == InitUI /\ [][NextUI]_vars

\* ------------------------------------------------------ both variants
Init == InitRun \/ InitUI

Next == NextRun \/ NextUI

Spec == Init /\ [][Next]_vars

\* ------------------------------------------- stage calls as two steps
\* `await agent.run(...)` in run(), loop.run_until_complete / future.result()
\* in run_async: the caller stays in the call it started until it is over.
NotSuspended(stage, at) == at

Suspended(stage, at) == stage

\* A stage call starts: the collaborator has it in flight.
Dispatch(stage) ==
    /\ awaiting = ""
    /\ Len(inflight) < MaxInflight
    /\ inflight' = Append(inflight, stage)
    /\ awaiting' = Suspended(stage, awaiting)
    /\ UNCHANGED <<variant, first_run, fs, environ, proc, prepCalls, trace, runVars, uiVars>>

\* run() reaches line 178 and starts the Requirements call.
RequirementsAwait ==
    /\ InSync /\ pc = "while"
    /\ LoopContinues(exists(fs, SPEC_FILE))
    /\ Cardinality(CallsOf(trace, "requirements")) < MaxReq
    /\ Dispatch("requirements")

RequirementsResume ==
    /\ inflight # <<>> /\ Head(inflight) = "requirements"
    /\ RequirementsInvokeFrom("requirements", Tail(inflight))

\* run() reaches line 210 and starts the Coding call.
CoderAwait ==
    /\ InSync /\ pc = "coding"
    /\ Dispatch("coder")

CoderResume ==
    /\ inflight # <<>> /\ Head(inflight) = "coder"
    /\ CoderInvokeFrom("coder", Tail(inflight))

\* run() reaches line 235 and starts the Validation call.
ValidatorAwait ==
    /\ InSync /\ pc = "validation"
    /\ Dispatch("validator")

ValidatorResume ==
    /\ inflight # <<>> /\ Head(inflight) = "validator"
    /\ ValidatorInvokeFrom("validator", Tail(inflight))

\* Whether a script run of phase 1 gets as far as run_async (line 125): a
\* non-blank turn was submitted and, on the first turn, the orchestrator is
\* built and the environment prepared without raising.
ReachesRequirementsCall ==
    /\ \E raw \in WidgetTexts, changed \in WidgetEvents, send_clicked \in WidgetEvents :
          (ss.input_submitted \/ changed \/ send_clicked) /\ strip(raw) # <<>>
    /\ NeedsBoot(ss.orchestrator) =>
          \E t \in Now : /\ ~Orchestrator__init__(proc, environ, "None", t).raised
                         /\ ~prepare_environment(fs).raised

\* A script run of phase 1 that makes no stage call: it returns at line 103
\* or the boot raises.
UIRequirementsNoCall ==
    /\ UIRequirementsFrom("", inflight)
    /\ UNCHANGED trace

UIRequirementsAwait ==
    /\ InUI /\ PHASE_HANDLERS(ss.phase) = "requirements"
    /\ Cardinality(CallsOf(trace, "requirements")) < MaxReq
    /\ ReachesRequirementsCall
    /\ Dispatch("requirements")

UIRequirementsResume ==
    /\ inflight # <<>> /\ Head(inflight) = "requirements"
    /\ UIRequirementsFrom("requirements", Tail(inflight))

UICodingAwait ==
    /\ InUI /\ PHASE_HANDLERS(ss.phase) = "coder"
    /\ Dispatch("coder")

UICodingResume ==
    /\ inflight # <<>> /\ Head(inflight) = "coder"
    /\ UICodingFrom("coder", Tail(inflight))

UIValidationAwait ==
    /\ InUI /\ PHASE_HANDLERS(ss.phase) = "validator"
    /\ Dispatch("validator")

UIValidationResume ==
    /\ inflight # <<>> /\ Head(inflight) = "validator"
    /\ UIValidationFrom("validator", Tail(inflight))

NextAwait ==
    \/ Main
    \/ RunBegin
    \/ LoopExit
    \/ RequirementsAwait
    \/ RequirementsResume
    \/ ReadAnswer
    \/ CoderAwait
    \/ CoderResume
    \/ ValidatorAwait
    \/ ValidatorResume
    \/ UIRequirementsNoCall
    \/ UIRequirementsAwait
    \/ UIRequirementsResume
    \/ UICodingAwait
    \/ UICodingResume
    \/ UIValidationAwait
    \/ UIValidationResume
    \/ UIReset
    \/ UIDone

SpecAwait == Init /\ [][NextAwait]_vars

\* ------------------------------- two callers on one working directory
\* `python orechestrator.py` is started in the directory a Streamlit session
\* works in: its orchestrator is constructed (in its own process), the
\* session has not taken a turn yet, the directory is clean. Neither caller
\* looks for the other: no lock file, no check of a run in progress.
InitRace ==
    /\ variant = "race"
    /\ fs = MkFS(Absent, Absent, Absent, Absent, Absent, Absent)
    /\ environ = "https://endpoint"
    /\ proc = NoProc
    /\ prepCalls = <<>>
    /\ trace = <<>>
    /\ pc = "request"
    /\ orchestrator = 1
    /\ conversation_history = <<>>
    /\ response = <<>>
    /\ coder_response = <<>>
    /\ result = NoResult
    /\ ss = SESSION_DEFAULTS
    /\ resets = 0
    /\ rerun = FALSE
    /\ log_rendered = FALSE
    /\ inflight = <<>>
    /\ awaiting = ""
    /\ first_run = <<>>

NextRace ==
    \/ RunBegin
    \/ LoopExit
    \/ RequirementsInvoke
    \/ ReadAnswer
    \/ CoderInvoke
    \/ ValidatorInvoke
    \/ UIRequirements
    \/ UICoding
    \/ UIValidation
    \/ UIDone

SpecRace == InitRace /\ [][NextRace]_vars

\* ------------------------------------ a session that repeats a run
\* The same project is asked for twice: first through `python
\* orechestrator.py`, until run() enters Coding or raises, then through a
\* Streamlit session started in the directory as the run had found it.
RepeatFS == {MkFS(Absent, Absent, Absent, Absent, s, Absent) : s \in FileNodes}

InitRepeat ==
    /\ variant = "sync"
    /\ fs \in RepeatFS
    /\ environ = "https://endpoint"
    /\ proc = NoProc
    /\ prepCalls = <<>>
    /\ trace = <<>>
    /\ pc = "start"
    /\ orchestrator = 0
    /\ conversation_history = <<>>
    /\ response = <<>>
    /\ coder_response = <<>>
    /\ result = NoResult
    /\ ss = SESSION_DEFAULTS
    /\ resets = 0
    /\ rerun = FALSE
    /\ log_rendered = FALSE
    /\ inflight = <<>>
    /\ awaiting = ""
    /\ first_run = [fs |-> fs, trace |-> <<>>]

\* The run is put aside and `streamlit run main_UI.py` starts, in a process
\* of its own, with a fresh session.
Repeat ==
    /\ variant = "sync" /\ pc \in {"coding", "raised"}
    /\ variant' = "ui"
    /\ first_run' = [first_run EXCEPT !.trace = trace]
    /\ fs' = first_run.fs
    /\ proc' = NoProc
    /\ trace' = <<>>
    /\ UNCHANGED <<environ, prepCalls, runVars, uiVars, inflight, awaiting>>

NextRepeat ==
    \/ Main
    \/ RunBegin
    \/ LoopExit
    \/ RequirementsInvoke
    \/ ReadAnswer
    \/ Repeat
    \/ UIRequirements

SpecRepeat == InitRepeat /\ [][NextRepeat]_vars

\* ---------------------------------------------- the preparator on its own
\* An orchestrator has been constructed; prepare_environment is called on
\* whatever the working directory holds.
PrepFS ==
    {MkFS(z, x, o, t, s, v) :
        z \in FileNodes, x \in FileNodes, o \in DirNodes, t \in DirNodes,
        s \in FileNodes, v \in FileNodes}

InitPrep ==
    /\ variant = "prep"
    /\ fs \in PrepFS
    /\ environ = "https://endpoint"
    /\ proc = Orchestrator__init__(NoProc, environ, "None", 0).proc
    /\ prepCalls = <<>>
    /\ trace = <<>>
    /\ pc = "request"
    /\ orchestrator = 1
    /\ conversation_history = <<>>
    /\ response = <<>>
    /\ coder_response = <<>>
    /\ result = NoResult
    /\ ss = SESSION_DEFAULTS
    /\ resets = 0
    /\ rerun = FALSE
    /\ log_rendered = FALSE
    /\ inflight = <<>>
    /\ awaiting = ""
    /\ first_run = <<>>

PrepareEnvironment ==
    /\ variant = "prep"
    /\ Len(prepCalls) < MaxPrepCalls
    /\ LET c == prepare_environment(fs) IN
       /\ fs' = c.after
       /\ prepCalls' = Append(prepCalls, c)
    /\ UNCHANGED <<variant, first_run, inflight, awaiting, environ, proc, trace, runVars, uiVars>>

NextPrep == PrepareEnvironment

SpecPrep == InitPrep /\ [][NextPrep]_vars

\* ================================================================== claims
Range(q) == {q[i] : i \in 1..Len(q)}
Count(q, P(_)) == Cardinality({i \in 1..Len(q) : P(q[i])})

Deletions == {"unlink", "retry", "rmdir", "remove"}

\* C7 as stated: when prepare_environment is called twice in succession, the
\* second call performs no deletions and raises no error.
C7_NoDeletionsOnSecondCall ==
    \A i \in 2..Len(prepCalls) :
        /\ ~prepCalls[i].raised
        /\ \A k \in 1..Len(prepCalls[i].ops) : prepCalls[i].ops[k].op \notin Deletions

\* C7 amended: when prepare_environment is called twice in succession and the
\* deletions of the first call all succeeded, the second call raises no error,
\* removes only the empty generated-source directory, re-creates it, and so
\* leaves the environment exactly as the first call left it.
C7_SecondCallOnlyRecreatesOutDir ==
    \A i \in 2..Len(prepCalls) :
        AllDeleted(prepCalls[i - 1]) =>
            /\ ~prepCalls[i].raised
            /\ prepCalls[i].ops = <<Op("rmdir", OUT_DIR, 0, "ok"),
                                    Op("makedirs", OUT_DIR, 0, "ok")>>
            /\ prepCalls[i].after = prepCalls[i].before
            /\ prepCalls[i].before = prepCalls[i - 1].after

C7_Witness ==
    /\ Len(prepCalls) >= 2
    /\ AllDeleted(prepCalls[1])
    /\ \E p \in Paths \ {OUT_DIR} : exists(prepCalls[1].before, p)
    /\ prepCalls[2].after = prepCalls[1].after

\* The known-empty environment.
KnownEmpty(f) ==
    /\ \A p \in {SPEC_FILE, ZIP_FILE, VALIDATION_FILE, FIXED_ZIP, TEST_DIR} :
          ~exists(f, p)
    /\ f[OUT_DIR] = Dir(<<>>)

\* C8: after a prepare_environment call in which every deletion succeeded,
\* the spec, deliverable, validation, fixed-deliverable and validation
\* workspace paths are absent and the generated-source directory exists and
\* is empty, whatever existed before the call.
C8_KnownEmptyAfterPrepare ==
    \A i \in 1..Len(prepCalls) :
        AllDeleted(prepCalls[i]) => KnownEmpty(prepCalls[i].after)

C8_Witness ==
    /\ Len(prepCalls) >= 1
    /\ AllDeleted(prepCalls[1])
    /\ \A p \in Paths : exists(prepCalls[1].before, p)
    /\ prepCalls[1].before[OUT_DIR].entries # <<>>
    /\ KnownEmpty(prepCalls[1].after)

\* The calls of c on entry e of path p that are of kind o.
OpsOn(c, o, p, e) ==
    {k \in 1..Len(c.ops) : c.ops[k].op = o /\ c.ops[k].path = p /\ c.ops[k].entry = e}

Logged(c, level, msg, p) == \E k \in 1..Len(c.log) : c.log[k] = Log(level, msg, p)

LastCheckBefore(k, path) ==
    LET checks == {j \in 1..(k - 1) : trace[j].ev = "check" /\ trace[j].what = path}
    IN IF checks = {} THEN 0 ELSE CHOOSE j \in checks : \A i \in checks : i <= j

\* C1: in the re-entrant adapter the phase of the session never decreases
\* from one script run to the next, except in the step that resets the
\* session, which is taken in phase 4 only.
C1_PhaseMonotonic ==
    [][\/ ss'.phase >= ss.phase
       \/ /\ ss.phase = 4
          /\ ss' = SESSION_DEFAULTS
          /\ trace' = <<Reset>>
          /\ resets' = resets + 1]_vars

C1_Witness ==
    /\ variant = "ui"
    /\ resets = 1
    /\ ss.phase = 4
    /\ CallsOf(trace, "validator") # {}

\* C4: in both variants every Coding call is preceded by a check of the spec
\* artifact that found it, with no Requirements call in between; every
\* Validation call is preceded by a check of the deliverable, made after a
\* Coding call, that found it; and as long as no check has found the spec
\* artifact, whatever the number of Requirements calls, the pipeline is not in
\* or past Coding.
C4_PhaseEntryPrecondition ==
    /\ \A c \in CallsOf(trace, "coder") :
          LET k == LastCheckBefore(c, SPEC_FILE) IN
          /\ k # 0
          /\ trace[k].res
          /\ \A j \in CallsOf(trace, "requirements") : j < k \/ j > c
    /\ \A v \in CallsOf(trace, "validator") :
          LET k == LastCheckBefore(v, ZIP_FILE) IN
          /\ k # 0
          /\ trace[k].res
          /\ \E c \in CallsOf(trace, "coder") : c < k /\ trace[c].res
    /\ (\A k \in 1..Len(trace) : trace[k] # Check(SPEC_FILE, TRUE)) =>
          /\ CallsOf(trace, "coder") = {}
          /\ CallsOf(trace, "validator") = {}
          /\ pc \notin {"coding", "validation", "returned"}
          /\ ss.phase = 1

\* Two Requirements calls without a spec artifact and no transition, in the
\* adapter.
C4_Witness ==
    /\ variant = "ui"
    /\ Cardinality(CallsOf(trace, "requirements")) = MaxReq
    /\ \A k \in 1..Len(trace) : trace[k] # Check(SPEC_FILE, TRUE)
    /\ \E k \in 1..Len(trace) : trace[k] = Check(SPEC_FILE, FALSE)
    /\ ss.phase = 1

IsBlank(raw) == \A i \in 1..Len(raw) : raw[i] = " "

\* C2: whenever run() has returned a result, success is true exactly when the
\* spec, deliverable and validation artifacts all exist, and the artifacts
\* snapshot of the result records that same file-system state.
C2_SuccessIffAllArtifacts ==
    result.returned =>
        /\ result.success <=> /\ exists(fs, SPEC_FILE)
                              /\ exists(fs, ZIP_FILE)
                              /\ exists(fs, VALIDATION_FILE)
        /\ result.artifacts.spec # "None" <=> exists(fs, SPEC_FILE)
        /\ result.artifacts.deliverable # "None" <=> exists(fs, ZIP_FILE)
        /\ result.artifacts.validation # "None" <=> exists(fs, VALIDATION_FILE)

C2_Witness ==
    /\ result.returned /\ result.success
    /\ CallsOf(trace, "validator") # {}
    /\ exists(fs, VALIDATION_FILE)

\* C3: if the deliverable is absent at the check that follows the Coding
\* call, run() has returned success=false with the fixed failure summary,
\* which mentions the deliverable, and Validation was invoked zero times.
C3_MissingDeliverableEndsRun ==
    (\E k \in 1..Len(trace) : trace[k] = Check(ZIP_FILE, FALSE)) =>
        /\ pc = "returned"
        /\ result.returned /\ ~result.success
        /\ result.summary = CodingFailureSummary
        /\ "deliverable" \in Range(result.summary)
        /\ CallsOf(trace, "validator") = {}

C3_Witness ==
    /\ \E k \in 1..Len(trace) : trace[k] = Check(ZIP_FILE, FALSE)
    /\ CallsOf(trace, "coder") # {}
    /\ result.returned

\* The number of Requirements calls among the first k events.
ReqCallsUpTo(k) == Cardinality({j \in CallsOf(trace, "requirements") : j <= k})

\* C5: if the k-th Requirements call is the first to create the spec artifact,
\* run() makes exactly k Requirements calls, then at most one Coding call and
\* then at most one Validation call; and when run() has returned after a
\* Coding call that created the deliverable, it made exactly one Coding and
\* one Validation call, in that order, and success is true exactly when the
\* validation artifact exists.
C5_StageOrder ==
    \A k \in CallsOf(trace, "requirements") :
        (/\ SPEC_FILE \in trace[k].eff
         /\ \A j \in CallsOf(trace, "requirements") : j < k => SPEC_FILE \notin trace[j].eff)
        =>
        /\ \A j \in CallsOf(trace, "requirements") : j <= k
        /\ Cardinality(CallsOf(trace, "requirements")) = ReqCallsUpTo(k)
        /\ Cardinality(CallsOf(trace, "coder")) <= 1
        /\ Cardinality(CallsOf(trace, "validator")) <= 1
        /\ \A c \in CallsOf(trace, "coder") :
              /\ c > k
              /\ \A v \in CallsOf(trace, "validator") : v > c
        /\ CallsOf(trace, "validator") # {} => CallsOf(trace, "coder") # {}
        /\ \A c \in CallsOf(trace, "coder") :
              ZIP_FILE \in trace[c].eff /\ pc = "returned" =>
                 /\ Cardinality(CallsOf(trace, "validator")) = 1
                 /\ result.success <=> exists(fs, VALIDATION_FILE)

\* A clean start on which the second Requirements call creates the spec, the
\* Coding call the deliverable and the Validation call its report.
C5_Witness ==
    /\ pc = "returned" /\ result.success
    /\ \E i \in 1..Len(trace) : trace[i] = Prepared(TRUE)
    /\ Cardinality(CallsOf(trace, "requirements")) = 2
    /\ \E k \in CallsOf(trace, "requirements") : SPEC_FILE \in trace[k].eff
    /\ \E c \in CallsOf(trace, "coder") : ZIP_FILE \in trace[c].eff
    /\ \E v \in CallsOf(trace, "validator") : VALIDATION_FILE \in trace[v].eff

\* C6: in run(), when an answer read during the Requirements loop is empty or
\* whitespace-only, the default instruction is what is appended to the plain
\* transcript (no user turn after the request is ever blank), no second
\* input is read, and the next event is a Requirements call that receives
\* the transcript ending with the default instruction.
C6_BlankAnswerGetsDefault ==
    /\ \A i \in 2..Len(conversation_history) : ~IsBlank(conversation_history[i])
    /\ \A k \in 2..Len(trace) :
          trace[k].ev = "input" /\ IsBlank(trace[k].arg[1]) =>
             IF k = Len(trace)
             THEN /\ pc = "while"
                  /\ ~exists(fs, SPEC_FILE)
                  /\ conversation_history[Len(conversation_history)] = DefaultAnswer
             ELSE /\ Len(trace) >= k + 2
                  /\ trace[k + 1] = Check(SPEC_FILE, FALSE)
                  /\ trace[k + 2].ev = "call"
                  /\ trace[k + 2].what = "requirements"
                  /\ trace[k + 2].arg[Len(trace[k + 2].arg)] = DefaultAnswer

C6_Witness ==
    \E k \in 2..Len(trace) :
        /\ trace[k].ev = "input"
        /\ trace[k].arg[1] = <<" ">>
        /\ Len(trace) >= k + 2
        /\ trace[k + 2].what = "requirements"
        /\ trace[k + 2].arg[Len(trace[k + 2].arg)] = DefaultAnswer

\* C10: a construction with no endpoint, neither passed nor in the
\* environment, raises and changes nothing: no agent is built, the logger
\* gets no handler, no log directory or log file is created, no artifact is
\* touched and no stage has run.
C10_NoEndpointNoSideEffect ==
    [][pc = "start" /\ ~Truthy(environ) =>
          /\ pc' = "config_error"
          /\ orchestrator' = 0
          /\ proc' = proc /\ proc.agents = 0 /\ proc.handlers = <<>>
          /\ proc.logFiles = {} /\ ~proc.logDir
          /\ fs' = fs
          /\ trace' = trace /\ trace = <<>>]_vars

C10_Witness ==
    /\ pc = "config_error"
    /\ environ = "None"
    /\ proc = NoProc

\* The events of the trace at which run() stopped by raising: a stage call
\* that raised, or the read of an answer that raised.
RunRaised == Raised(trace) \cup {k \in 1..Len(trace) : trace[k].ev = "eof"}

\* C11 as stated: after successful construction run() never raises
\* mid-pipeline; every run that stops ends by returning a RunResult.
C11_RunNeverRaises == pc # "raised"

\* C11 amended: run() stops by raising only when a collaborator it calls (a
\* stage call, or the read of the user's answer) itself raises, and then it
\* returns nothing; every failure in which the stage call returned but its
\* expected artifact is absent (the deliverable after Coding, the validation
\* report after Validation) ends in a returned RunResult with success=false.
C11_RaisesOnlyWhenCollaboratorRaises ==
    /\ pc = "raised" <=> RunRaised # {}
    /\ pc = "raised" => RunRaised = {Len(trace)} /\ ~result.returned
    /\ pc = "returned" <=> result.returned
    /\ (\E k \in 1..Len(trace) : trace[k] = Check(ZIP_FILE, FALSE)) =>
          result.returned /\ ~result.success
    /\ (\E v \in CallsOf(trace, "validator") :
            trace[v].res /\ ~exists(fs, VALIDATION_FILE)) =>
          result.returned /\ ~result.success

\* A Validation call returned without writing its report and run() returned
\* a failed result.
C11_Witness ==
    /\ pc = "returned"
    /\ \E v \in CallsOf(trace, "validator") : trace[v].res
    /\ ~exists(fs, VALIDATION_FILE)
    /\ result.returned /\ ~result.success
    /\ RunRaised = {}

\* C12: in both variants, once the Validation call has returned the pipeline
\* is at Done, whether or not the validation report exists: run() has
\* returned the final result, whose success and summary alone reflect a
\* missing report; the adapter holds phase 4 with no error recorded.
C12_ValidationAlwaysLeadsToDone ==
    \A v \in CallsOf(trace, "validator") :
        trace[v].res =>
            /\ v = Len(trace)
            /\ variant = "sync" =>
                  /\ pc = "returned" /\ result.returned
                  /\ result.conversation[Len(result.conversation)] = Reply("validator", 1)
                  /\ result.success <=> exists(fs, VALIDATION_FILE)
                  /\ ~exists(fs, VALIDATION_FILE) => "validation" \in Range(result.summary)
            /\ variant = "ui" =>
                  /\ ss.phase = 4
                  /\ ss.error = <<>>

\* The adapter at Done after a Validation call that wrote no report.
C12_Witness ==
    /\ variant = "ui"
    /\ \E v \in CallsOf(trace, "validator") : trace[v].res /\ trace[v].eff = {}
    /\ ~exists(fs, VALIDATION_FILE)
    /\ ss.phase = 4

\* The path get_artifacts() looks up under a key.
ArtifactPath(k) ==
    CASE k = "spec" -> SPEC_FILE
      [] k = "deliverable" -> ZIP_FILE
      [] k = "validation" -> VALIDATION_FILE
      [] k = "source" -> OUT_DIR

\* C13: in the result run() builds after Validation, the summary is the fixed
\* success message exactly when success is true; otherwise it names every
\* artifact among spec, deliverable and validation that is absent, names at
\* least one artifact, and names no artifact that is present.
C13_SummaryNamesMissingArtifacts ==
    result.returned /\ CallsOf(trace, "validator") # {} =>
        /\ result.summary = SuccessSummary <=> result.success
        /\ ~result.success =>
              /\ \A k \in {"spec", "deliverable", "validation"} :
                    ~exists(fs, ArtifactPath(k)) => k \in Range(result.summary)
              /\ \E k \in Range(ArtifactKeys) : k \in Range(result.summary)
              /\ \A k \in Range(ArtifactKeys) :
                    exists(fs, ArtifactPath(k)) => k \notin Range(result.summary)

\* A final result with the validation report missing and the sources present.
C13_Witness ==
    /\ result.returned /\ ~result.success
    /\ CallsOf(trace, "validator") # {}
    /\ exists(fs, OUT_DIR)
    /\ "validation" \in Range(result.summary)
    /\ "source" \notin Range(result.summary)

\* The Requirements calls of the trace that returned.
ReturnedRequirements == {k \in CallsOf(trace, "requirements") : trace[k].res}

\* Every response of a returned Requirements call is in conv, in call order.
HoldsResponsesInOrder(conv) ==
    /\ \A k \in ReturnedRequirements :
          \E i \in 1..Len(conv) : conv[i] = Reply("requirements", ReqCallsUpTo(k))
    /\ \A k1, k2 \in ReturnedRequirements :
          k1 < k2 =>
             \E i, j \in 1..Len(conv) :
                /\ i < j
                /\ conv[i] = Reply("requirements", ReqCallsUpTo(k1))
                /\ conv[j] = Reply("requirements", ReqCallsUpTo(k2))

\* C14: every response returned by a Requirements call is appended to the
\* plain transcript after that call, in both variants: once run() has moved on
\* from the call (it has read the answer, or left the loop) and at the end of
\* every script run of the adapter, the transcript holds the response of each
\* Requirements call, in order, and so does the conversation of the result
\* run() returns.
C14_EveryRequirementsResponseInTranscript ==
    /\ variant = "sync" /\ pc \in {"while", "coding", "validation", "returned"} =>
          HoldsResponsesInOrder(conversation_history)
    /\ variant = "sync" /\ result.returned => HoldsResponsesInOrder(result.conversation)
    /\ variant = "ui" => HoldsResponsesInOrder(ss.conversation_history)

\* C15: the conversation of the result run() returns after Validation is the
\* plain transcript of the Requirements phase followed by exactly four
\* entries: the instruction given to the Coding call, its response, the
\* instruction given to the Validation call, its response; on the
\* coding-failure path it is the transcript followed by the Coding
\* instruction and response only.
C15_ConversationIsTranscriptPlusStagePairs ==
    result.returned =>
        /\ Cardinality(CallsOf(trace, "coder")) = 1
        /\ \A c \in CallsOf(trace, "coder") :
              /\ trace[c].arg = <<coder_prompt>>
              /\ IF CallsOf(trace, "validator") = {}
                 THEN /\ trace[Len(trace)] = Check(ZIP_FILE, FALSE)
                      /\ result.conversation =
                            conversation_history \o <<trace[c].arg[1], coder_response>>
                 ELSE \A v \in CallsOf(trace, "validator") :
                         /\ trace[v].arg = <<validator_prompt>>
                         /\ result.conversation =
                               conversation_history
                               \o <<trace[c].arg[1], coder_response,
                                    trace[v].arg[1], Reply("validator", 1)>>
        /\ coder_response = Reply("coder", 1)

\* A final result after one question and one answer: a transcript of three
\* entries followed by the four stage entries.
C15_Witness ==
    /\ result.returned
    /\ CallsOf(trace, "validator") # {}
    /\ Len(conversation_history) = 3
    /\ Len(result.conversation) = 7

IsPrefix(a, b) == Len(a) <= Len(b) /\ SubSeq(b, 1, Len(a)) = a

\* C16: the plain transcript is append-only within a run, in both variants:
\* every step leaves the previous transcript as a prefix of the new one (no
\* entry is removed, changed or reordered), except the step that resets the
\* session of the adapter.
C16_TranscriptAppendOnly ==
    [][/\ IsPrefix(conversation_history, conversation_history')
       /\ \/ IsPrefix(ss.conversation_history, ss'.conversation_history)
          \/ /\ ss.phase = 4
             /\ resets' = resets + 1
             /\ trace' = <<Reset>>]_vars

\* run() after one question and one answer: the request, the response and the
\* answer, in that order.
C16_Witness ==
    /\ variant = "sync" /\ pc = "while"
    /\ Len(conversation_history) = 3
    /\ conversation_history[2] = Reply("requirements", 1)
    /\ \E k \in 1..Len(trace) :
          trace[k].ev = "input" /\ conversation_history[1] = strip(trace[k].arg[1])

\* The last Requirements call of the trace, 0 if none.
LastRequirements ==
    IF CallsOf(trace, "requirements") = {} THEN 0
    ELSE CHOOSE k \in CallsOf(trace, "requirements") :
            \A j \in CallsOf(trace, "requirements") : j <= k

\* C17: in the adapter, at the end of every script run the display transcript
\* and the plain transcript are parallel (same length, and the text of
\* display entry i is plain entry i), and every Requirements call was given
\* the plain transcript as it stood at the call: the transcript now is what
\* the last call was given, followed by its response if it returned, and what
\* a call was given is a proper prefix of what the next one was given, which
\* adds the response (if any) and one user turn.
C17_DisplayAndPlainTranscriptsParallel ==
    variant = "ui" =>
        /\ Len(ss.chat_messages) = Len(ss.conversation_history)
        /\ \A i \in 1..Len(ss.chat_messages) :
              ss.chat_messages[i].text = ss.conversation_history[i]
        /\ LastRequirements # 0 =>
              ss.conversation_history =
                 IF trace[LastRequirements].res
                 THEN Append(trace[LastRequirements].arg,
                             Reply("requirements", ReqCallsUpTo(LastRequirements)))
                 ELSE trace[LastRequirements].arg
        /\ LastRequirements = 0 => ss.conversation_history = <<>>
        /\ \A j, k \in CallsOf(trace, "requirements") :
              j < k =>
                 /\ IsPrefix(trace[j].arg, trace[k].arg)
                 /\ Len(trace[k].arg) > Len(trace[j].arg)
                 /\ ReqCallsUpTo(k) = ReqCallsUpTo(j) + 1 =>
                       Len(trace[k].arg) =
                          Len(trace[j].arg) + (IF trace[j].res THEN 2 ELSE 1)

\* Two exchanges in the adapter: user, agent, user, agent in both transcripts.
C17_Witness ==
    /\ variant = "ui"
    /\ Len(ss.conversation_history) = 4
    /\ ss.chat_messages[3].role = "user"
    /\ ss.chat_messages[4].role = "agent"
    /\ ss.chat_messages[4].text = Reply("requirements", 2)
    /\ Cardinality(CallsOf(trace, "requirements")) = 2

\* The environment preparations recorded in a trace.
PreparedEvents(tr) == {k \in 1..Len(tr) : tr[k].ev = "prepare"}

\* The events a step appends to the trace (none in the step that resets it).
NewEvents == {k \in 1..Len(trace') : k > Len(trace) /\ Len(trace') > Len(trace)}

\* C18: in each session of the adapter the orchestrator is constructed and
\* the environment prepared exactly once, in the first script run that takes
\* a user turn, before the first Requirements call of the session; a script
\* run that takes no user turn constructs nothing and deletes nothing. (With
\* no endpoint configured the construction raises: nothing is constructed,
\* prepared or invoked, and the turn is not taken.)
C18_BootOncePerSession ==
    /\ [](variant = "ui" =>
            /\ Cardinality(PreparedEvents(trace)) <= 1
            /\ ss.orchestrator # 0 <=> PreparedEvents(trace) # {}
            /\ \A k \in CallsOf(trace, "requirements") :
                  \E j \in PreparedEvents(trace) : j < k
            /\ proc.instances = resets + Cardinality(PreparedEvents(trace))
            /\ ss.conversation_history # <<>> => ss.orchestrator # 0)
    /\ [][variant = "ui" =>
            LET turn == ss.phase = 1 /\ ss'.conversation_history # ss.conversation_history
                booted == \E k \in NewEvents : trace'[k].ev = "prepare"
            IN /\ (booted \/ proc' # proc) =>
                     /\ turn /\ booted
                     /\ ss.orchestrator = 0
                     /\ proc'.instances = proc.instances + 1
                     /\ ss'.orchestrator = proc'.instances
                     /\ trace'[Len(trace) + 1].ev = "prepare"
                     /\ trace'[Len(trace) + 2].what = "requirements"
               /\ turn /\ ss.orchestrator = 0 => booted
               /\ ss.phase = 1 /\ ~turn =>
                     fs' = fs /\ proc' = proc /\ trace' = trace]_vars

\* The second session of the process, after a reset: it constructed its own
\* orchestrator and prepared the environment once, before its first
\* Requirements call.
C18_Witness ==
    /\ variant = "ui"
    /\ resets = 1
    /\ proc.instances = 2
    /\ ss.orchestrator = 2
    /\ Cardinality(PreparedEvents(trace)) = 1
    /\ Cardinality(CallsOf(trace, "requirements")) = 2

\* The stage calls a step appends to the trace.
NewCalls == {k \in NewEvents : trace'[k].ev = "call"}

\* The stage a phase stands for.
StageOfPhase(phase) ==
    CASE phase = 1 -> "requirements"
      [] phase = 2 -> "coder"
      [] phase = 3 -> "validator"
      [] OTHER -> "none"

\* C19: in the adapter every script run makes at most one stage call, and the
\* stage called is the one of the phase held when the script run started
\* (none in phase 4); the phase changes only in a script run whose stage call
\* returned, or in the one that resets the session.
C19_OneStagePerTriggerSelectedByPhase ==
    [][variant = "ui" =>
          /\ Cardinality(NewCalls) <= 1
          /\ \A k \in NewCalls : trace'[k].what = StageOfPhase(ss.phase)
          /\ ss.phase = 4 => NewCalls = {}
          /\ ss'.phase # ss.phase =>
                \/ \E k \in NewCalls : trace'[k].res
                \/ ss.phase = 4 /\ ss' = SESSION_DEFAULTS /\ resets' = resets + 1
          /\ \A k \in NewCalls : ~trace'[k].res => ss'.phase = ss.phase]_vars

\* The adapter between Coding and Validation: one Coding call was made in
\* phase 2 and the phase moved to 3 after it returned.
C19_Witness ==
    /\ variant = "ui"
    /\ ss.phase = 3
    /\ Cardinality(CallsOf(trace, "coder")) = 1
    /\ CallsOf(trace, "validator") = {}
    /\ trace[Len(trace)] = Check(ZIP_FILE, TRUE)

\* C20 as stated: the adapter never self-schedules further work; it never
\* requests another pass itself.
C20_NeverSelfSchedules == variant = "ui" => ~rerun

\* C20 amended: a script run of the adapter requests the next pass itself
\* (st.rerun()) exactly when its handler made a stage call that returned, or
\* reset the session; a script run that takes no step (no user turn in
\* phase 1, phase 4 without a reset) or whose stage call raised requests none
\* and the adapter then waits for an external trigger. So in phases 2 and 3
\* the next pass is always already requested, unless the last stage call
\* raised.
C20_SelfSchedulesAfterEachStep ==
    /\ [][variant = "ui" =>
             (rerun' <=> \/ \E k \in NewCalls : trace'[k].res
                         \/ /\ ss.phase = 4
                            /\ ss' = SESSION_DEFAULTS
                            /\ resets' = resets + 1)]_vars
    /\ [](variant = "ui" /\ ss.phase \in {2, 3} =>
             \/ rerun
             \/ Len(trace) \in Raised(trace))

\* The Requirements call has created the spec and the adapter has requested
\* the pass that will run Coding.
C20_Witness ==
    /\ variant = "ui"
    /\ rerun
    /\ ss.phase = 2
    /\ trace[Len(trace)] = Check(SPEC_FILE, TRUE)
    /\ CallsOf(trace, "coder") = {}

\* C21: in the adapter a submitted script run of phase 1 whose input is empty
\* or blank is handled as run() handles a blank answer: the default
\* instruction is appended as the user turn and one Requirements call is
\* made. (A blank submission is a script run of phase 1 that ends with the
\* submission flag of the text input raised.)
C21_BlankSubmissionGetsDefault ==
    [][variant = "ui" /\ ss.phase = 1 /\ ss'.input_submitted =>
          /\ Len(ss'.conversation_history) > Len(ss.conversation_history)
          /\ ss'.conversation_history[Len(ss.conversation_history) + 1] = DefaultAnswer
          /\ \E k \in NewCalls : trace'[k].what = "requirements"]_vars

\* C22: in the adapter, phase_done presents the run as successful exactly
\* when the spec, deliverable and validation artifacts all exist when phase 4
\* is rendered, as run() computes success.
C22_DoneShowsSuccessIffAllArtifacts ==
    variant = "ui" /\ ss.phase = 4 =>
        (phase_done(ss) = "success" <=> Success(get_artifacts(fs)))

\* C30: while the phase of the session is 2 or 3, every script run reaches
\* render_log_column, which renders the log panel, sleeps 2 seconds and
\* requests the next script run.
C30_LogColumnPollsDuringLongSteps ==
    [][variant = "ui" /\ ss.phase \in {2, 3} => log_rendered' /\ rerun']_vars

\* The sinks of a kind on the process-wide "orchestrator" logger.
HandlersOfKind(kind) == {i \in 1..Len(proc.handlers) : proc.handlers[i].kind = kind}

\* C25: after any number of Orchestrator constructions in one process the
\* "orchestrator" logger has exactly two sinks, one console sink and one file
\* sink (the file of the latest construction); before the first construction
\* it has none.
C25_LoggerHasTwoSinks ==
    /\ proc.instances = 0 => proc.handlers = <<>>
    /\ proc.instances >= 1 =>
          /\ Len(proc.handlers) = 2
          /\ Cardinality(HandlersOfKind("console")) = 1
          /\ Cardinality(HandlersOfKind("file")) = 1
          /\ \A i \in HandlersOfKind("file") : proc.handlers[i].file = proc.clock

\* Two constructions in one process: the second session has built its own
\* orchestrator.
C25_Witness ==
    /\ proc.instances = 2
    /\ resets = 1
    /\ Len(proc.handlers) = 2

\* C26: the log files of any two constructions never collide: each
\* construction gets a log file name of its own, so there are as many log
\* files as constructions.
C26_LogFileNamesNeverCollide == Cardinality(proc.logFiles) = proc.instances

\* C27: the reset is taken in phase 4 only and destroys the session: right
\* after it the phase is 1, the display and plain transcripts are empty,
\* error is unset and no orchestrator or log file is referenced; the reset
\* leaves the artifacts of the file system (and the process) unchanged.
C27_ResetDestroysSession ==
    [][variant = "ui" /\ resets' # resets =>
          /\ ss.phase = 4
          /\ resets' = resets + 1
          /\ ss'.phase = 1
          /\ ss'.chat_messages = <<>>
          /\ ss'.conversation_history = <<>>
          /\ ss'.error = <<>>
          /\ ss'.orchestrator = 0
          /\ ss'.log_file = -1
          /\ fs' = fs
          /\ proc' = proc]_vars

\* Right after the reset of a session that ended in a coding failure: the
\* spec artifact it produced is still there.
C27_Witness ==
    /\ variant = "ui"
    /\ resets = 1
    /\ trace = <<Reset>>
    /\ ss.phase = 1 /\ ss.error = <<>> /\ ss.orchestrator = 0
    /\ exists(fs, SPEC_FILE) /\ ~exists(fs, ZIP_FILE)
    /\ proc.instances = 1

\* C28: in the adapter, if the deliverable is absent when the Coding call
\* returns, the session is in phase 4 with error set to the failure message
\* and no Validation call is made in that session; and error is set by this
\* path only, so error being set implies phase 4.
C28_CodingFailureGoesToDoneWithError ==
    variant = "ui" =>
        /\ (\E k \in 1..Len(trace) : trace[k] = Check(ZIP_FILE, FALSE)) =>
              /\ ss.phase = 4
              /\ ss.error = CodingFailedError
              /\ "deliverable" \in Range(ss.error)
              /\ CallsOf(trace, "validator") = {}
              /\ phase_done(ss) = "error"
        /\ ss.error # <<>> =>
              /\ ss.phase = 4
              /\ trace[Len(trace)] = Check(ZIP_FILE, FALSE)

\* A session at Done after a Coding call that returned without a deliverable.
C28_Witness ==
    /\ variant = "ui"
    /\ ss.phase = 4
    /\ ss.error = CodingFailedError
    /\ \E c \in CallsOf(trace, "coder") : trace[c].res /\ ZIP_FILE \notin trace[c].eff
    /\ ~exists(fs, ZIP_FILE)

\* C29: between the creation of an adapter session and its reset (the trace
\* is per session), the Coding stage is invoked at most once and the
\* Validation stage at most once, raised invocations included.
C29_CodingAndValidationInvokedAtMostOnce ==
    variant = "ui" =>
        /\ Cardinality(CallsOf(trace, "coder")) <= 1
        /\ Cardinality(CallsOf(trace, "validator")) <= 1

\* C23: within one run, two stage invocations never overlap, in the
\* synchronous run and in the adapter alike: at most one stage call is in
\* flight, the caller is blocked in exactly that call, and a call starts only
\* when none is in flight.
C23_StageCallsNeverOverlap ==
    /\ Len(inflight) <= 1
    /\ inflight # <<>> => awaiting = inflight[1]
    /\ awaiting # "" => inflight = <<awaiting>>

\* A Validation call in flight after the Coding call of the same session
\* returned.
C23_Witness ==
    /\ variant = "ui"
    /\ inflight = <<"validator">>
    /\ \E c \in CallsOf(trace, "coder") : trace[c].res
    /\ \E c \in CallsOf(trace, "requirements") : trace[c].res

\* A session of the adapter between its environment preparation and Done, and
\* a synchronous run between the start of run() and its return.
SessionActive == ss.orchestrator # 0 /\ ss.phase \in {1, 2, 3}
RunActive == pc \in {"while", "input", "coding", "validation"}

\* The step executes the Environment Preparator or invokes a stage.
PreparesOrInvokes == \E k \in NewEvents : trace'[k].ev \in {"prepare", "call"}

\* C24: at most one run is active per working directory: while a session is
\* between its environment preparation and Done, no step of a synchronous run
\* on the same directory executes the Environment Preparator or invokes a
\* stage, and while a synchronous run is active no step of a session does.
C24_SecondRunDisallowed ==
    [][/\ (SessionActive /\ pc' # pc) => ~PreparesOrInvokes
       /\ (RunActive /\ pc' = pc) => ~PreparesOrInvokes]_vars

\* C34: in the adapter, whenever the session phase is Coding (2) or
\* Validation (3) the session holds a constructed orchestrator, after any
\* sequence of script runs and resets.
C34_CodingAndValidationHaveOrchestrator ==
    variant = "ui" =>
        (PHASE_HANDLERS(ss.phase) \in {"coder", "validator"} =>
            /\ ss.orchestrator # 0
            /\ ss.orchestrator <= proc.instances)

\* A session in phase Validation that was started after a reset.
C34_Witness ==
    /\ variant = "ui"
    /\ resets > 0
    /\ ss.phase = 3
    /\ ss.orchestrator # 0

\* C35: in the adapter, a script run whose stage call raises leaves the
\* session as it was: phase, display transcript, plain transcript and error
\* are unchanged.
C35_RaisedCallLeavesSessionUnchanged ==
    [][(variant = "ui" /\ \E k \in NewCalls : ~trace'[k].res) =>
          /\ ss'.phase = ss.phase
          /\ ss'.chat_messages = ss.chat_messages
          /\ ss'.conversation_history = ss.conversation_history
          /\ ss'.error = ss.error]_vars

\* The files the process-wide "orchestrator" logger writes to in process
\* state p.
LoggerFiles(p) == {p.handlers[i].file : i \in {j \in 1..Len(p.handlers) : p.handlers[j].kind = "file"}}

\* C36: constructing a further Orchestrator in a process does not change the
\* file to which the records logged through an earlier instance's logger are
\* written.
C36_LaterConstructionKeepsLogFile ==
    [][(proc.instances >= 1 /\ proc'.instances = proc.instances + 1) =>
          LoggerFiles(proc') = LoggerFiles(proc)]_vars

\* C33: in both variants, no entry of the plain transcript supplied to a
\* Requirements call is empty or whitespace-only, the initial request
\* included.
C33_NoBlankTurnReachesRequirements ==
    \A k \in CallsOf(trace, "requirements") :
        \A i \in 1..Len(trace[k].arg) : ~IsBlank(trace[k].arg[i])

\* C32: every run() invokes the Requirements stage at least once, on the
\* caller's initial request, before it invokes the Coding stage, whatever
\* clean_start is and whatever the Environment Preparator could remove.
C32_RequirementsBeforeCoding ==
    variant = "sync" =>
        \A c \in CallsOf(trace, "coder") :
            \E r \in CallsOf(trace, "requirements") :
                /\ r < c
                /\ trace[r].arg[1] = conversation_history[1]

\* The places of the trace where run() found the spec artifact present.
SpecSeenAt == {k \in 1..Len(trace) : trace[k] = Check(SPEC_FILE, TRUE)}

\* The stage calls of the trace after place k.
CallsAfter(k) == {c \in 1..Len(trace) : c > k /\ trace[c].ev = "call"}

\* After run() found the spec artifact present: no further Requirements call
\* and no further user read, at most one Coding call and then at most one
\* Validation call; a run that ended without raising returned a RunResult.
NoCallButCodingThenValidation ==
    variant = "sync" =>
        /\ \A k \in SpecSeenAt :
              /\ \A c \in CallsAfter(k) : trace[c].what \in {"coder", "validator"}
              /\ \A i \in 1..Len(trace) : i > k => trace[i].ev \notin {"input", "eof"}
              /\ Cardinality(CallsAfter(k)) <= 2
              /\ Cardinality(CallsAfter(k) \cap CallsOf(trace, "coder")) <= 1
              /\ Cardinality(CallsAfter(k) \cap CallsOf(trace, "validator")) <= 1
              /\ \A c \in CallsAfter(k) \cap CallsOf(trace, "coder") :
                    \A v \in CallsAfter(k) \cap CallsOf(trace, "validator") : c < v
        /\ pc = "returned" => result.returned /\ SpecSeenAt # {}

\* C37: run() terminates once the spec artifact exists: from then on it makes
\* no further Requirements call, at most a Coding and then a Validation call,
\* and (every call returning) it returns a RunResult; a Requirements call is
\* made only while the spec artifact is absent.
C37_RunTerminatesOnceSpecExists ==
    /\ []NoCallButCodingThenValidation
    /\ [][(variant = "sync" /\ \E c \in NewCalls : trace'[c].what = "requirements")
             => ~exists(fs, SPEC_FILE)]_vars
    /\ (variant = "sync" /\ SpecSeenAt # {}) ~> (pc = "returned" \/ RunRaised # {})

\* A run that returned after the second Requirements call created the spec
\* artifact and the Coding and Validation calls were made.
C37_Witness ==
    /\ variant = "sync"
    /\ pc = "returned"
    /\ result.returned
    /\ Cardinality(CallsOf(trace, "requirements")) = 2
    /\ CallsOf(trace, "coder") # {}
    /\ CallsOf(trace, "validator") # {}
    /\ RunRaised = {}

\* The place in tr of its j-th Requirements call.
NthRequirements(tr, j) ==
    CHOOSE k \in CallsOf(tr, "requirements") :
        Cardinality({i \in CallsOf(tr, "requirements") : i <= k}) = j

\* The user turns of the run put aside, as typed, and the transcript turns
\* its input() calls made of them.
RunInputs == SelectSeq(first_run.trace, LAMBDA e : e.ev = "input")
RunTurns == [j \in 1..Len(RunInputs) |-> strip(RunInputs[j].arg[1])]

\* The user turn each script run of the session supplied: the last entry of
\* the transcript its Requirements call received.
SessionTurns ==
    [j \in 1..Cardinality(CallsOf(trace, "requirements")) |->
        LET a == trace[NthRequirements(trace, j)].arg IN a[Len(a)]]

\* The Requirements calls both callers have made so far.
CommonCalls ==
    {j \in 1..Cardinality(CallsOf(trace, "requirements")) :
        j <= Cardinality(CallsOf(first_run.trace, "requirements"))}

\* The Requirements stage behaved alike towards both: call by call it
\* returned or raised in both, and wrote the spec artifact in both or in
\* neither.
SameRequirementsBehaviour ==
    \A j \in CommonCalls :
        LET r == first_run.trace[NthRequirements(first_run.trace, j)]
            u == trace[NthRequirements(trace, j)]
        IN /\ r.res = u.res
           /\ (SPEC_FILE \in r.eff) = (SPEC_FILE \in u.eff)

\* C31: for the same sequence of non-blank user turns and the same
\* Requirements-stage behaviour, the j-th Requirements call receives the same
\* transcript in the synchronous run and in the adapter, and both enter
\* Coding after the same number of Requirements calls.
C31_SameTranscriptsInBothVariants ==
    (/\ variant = "ui" /\ first_run # <<>>
     /\ \A j \in 1..Len(RunInputs) : ~IsBlank(RunInputs[j].arg[1])
     /\ RunTurns = SessionTurns
     /\ SameRequirementsBehaviour)
    => /\ \A j \in CommonCalls :
             first_run.trace[NthRequirements(first_run.trace, j)].arg
                = trace[NthRequirements(trace, j)].arg
       /\ (pc = "coding" /\ ss.phase = 2) =>
             Cardinality(CallsOf(first_run.trace, "requirements"))
                = Cardinality(CallsOf(trace, "requirements"))

=============================================================================
